---- MODULE Spec2Model ----
(***************************************************************************)
(* The settings file reader of lib-settings (settings.c): settings_read_i  *)
(* with its input stack, the include loader and the section dispatcher.    *)
(*                                                                         *)
(* A path is the sequence of its '/'-separated components; an absolute     *)
(* path starts with the empty component.  A configuration file is a        *)
(* sequence of logical lines, each already classified the way the          *)
(* dispatcher of settings_read_i classifies it.  The contents of the files *)
(* are inputs: they are fixed the first time a line is read and every      *)
(* later read of the same file sees the same lines.                        *)
(***************************************************************************)
EXTENDS Integers, Sequences, FiniteSets, TLC

\* total number of lines of all the configuration files together: of a
\* root file without include directives, and of files with them
MaxLines == 4
MaxInclLines == 3
\* longest path (in components) the operating system opens (PATH_MAX)
MaxPathLen == 4

NULL == "NULL"

(***************************************************************************)
(* The file system.                                                        *)
(***************************************************************************)
\* the working directory of the process and the directory of the files
Cwd == <<"", "w">>
ConfDir == <<"", "w", "d">>
FileNames == {"a", "b", "c"}
\* the path settings_read_i is called with: d/a
RootPath == <<"d", "a">>

\* present: readable; noperm: open() fails with EACCES; dangling: the name
\* is listed in the directory but open() fails with ENOENT; absent: no
\* directory entry
FileStatus == {"present", "noperm", "dangling", "absent"}

IsAbsolute(p) == Len(p) > 0 /\ p[1] = ""

RECURSIVE Resolve(_, _)
Resolve(done, rest) ==
    IF rest = <<>> THEN done
    ELSE IF Head(rest) = "." \/ Head(rest) = "" THEN Resolve(done, Tail(rest))
    ELSE IF Head(rest) = ".."
         THEN Resolve(IF Len(done) > 1 THEN SubSeq(done, 1, Len(done) - 1)
                      ELSE done, Tail(rest))
    ELSE Resolve(Append(done, Head(rest)), Tail(rest))

\* the canonical (absolute, no "." or "..") form of a path
Canonical(p) == Resolve(<<"">>, IF IsAbsolute(p) THEN p ELSE Cwd \o p)

\* the file a path names, "none" when it names no file of the directory
FileOf(p) ==
    LET c == Canonical(p) IN
    IF Len(c) = Len(ConfDir) + 1 /\ SubSeq(c, 1, Len(ConfDir)) = ConfDir
       /\ c[Len(c)] \in FileNames
    THEN c[Len(c)] ELSE "none"

(***************************************************************************)
(* Logical lines.                                                          *)
(***************************************************************************)
Line(kind, key, name, pattern) ==
    [kind |-> kind, key |-> key, name |-> name, pattern |-> pattern]

\* the patterns written after !include / !include_try
Patterns == {<<"b">>, <<"..", "d", "a">>, <<"{b,c}">>}

AssignLines == {Line("assign", "k", "", <<>>)}
OpenLines == {Line("open", "x", "s", <<>>), Line("open", "x", "t", <<>>),
              Line("open", "s", "", <<>>)}
CloseLines == {Line("close", "}", "", <<>>)}
JunkLines == {Line("junk", "k", "v", <<>>)}
IncludeLines == {Line("include", k, "", p) : k \in {"!include", "!include_try"},
                                             p \in Patterns}
\* the lines of a file without include directives, and the lines of files
\* that include each other
SectionAlphabet == AssignLines \cup OpenLines \cup CloseLines \cup JunkLines
IncludeAlphabet == AssignLines \cup {Line("open", "x", "s", <<>>)}
                   \cup CloseLines \cup JunkLines \cup IncludeLines

\* the values of the section argument: NULL, "s", "s/t"
Sections == {[null |-> TRUE, comps |-> <<>>],
             [null |-> FALSE, comps |-> <<"s">>],
             [null |-> FALSE, comps |-> <<"s", "t">>]}

(***************************************************************************)
(* Error messages.                                                         *)
(***************************************************************************)
\* text: the fixed part of the message; arg: the path printed with %s;
\* errno: what %m prints; changed_path, changed_line: set by SECTION_ERRORMSG
ErrnoMsg(text, arg, errno) ==
    [text |-> text, arg |-> arg, errno |-> errno, changed_path |-> <<>>,
     changed_line |-> 0]
Msg(text, arg) == ErrnoMsg(text, arg, "")
NoMsg == Msg(NULL, <<>>)
\* SECTION_ERRORMSG "%s (section changed in %s at line %d)"
SECTION_ERRORMSG(msg, p, n) ==
    [msg EXCEPT !.changed_path = p, !.changed_line = n]
\* *error_r: "Error in configuration file %s line %d: %s", or the bare
\* message "Can't open configuration file %s: %m" (located FALSE)
ErrorInFile(p, n, msg) == [located |-> TRUE, path |-> p, line |-> n, msg |-> msg]
BareError(msg) == [located |-> FALSE, path |-> <<>>, line |-> 0, msg |-> msg]
NoError == BareError(NoMsg)
\* what a callback can report: nothing, or an error of its own
CallbackErrors == {NoMsg, Msg("callback error", <<>>)}

VARIABLES
    pc,                 \* "start", "read" (in the loop at prevfile), "done"
    fstatus,            \* the status of each file of the directory
    files,              \* the lines of each file as far as they are fixed
    alphabet,           \* the lines the files are written with
    max_lines,          \* the number of lines the files have together
    section_arg,        \* the section argument as passed by the caller
    sect_callback,      \* FALSE when the section callback is NULL
    input,              \* the input stack, top last
    open_streams,       \* istreams created and not yet destroyed
    section,            \* the components of section not yet matched
    next_section,
    skip, sections, root_section,
    errormsg,
    last_section_path, last_section_line,
    error_r, ret,
    nest,               \* history: the names of the sections that are open
    opened,             \* history: the sections opened so far, as paths
    accepts,            \* history: for each open section, whether the
                        \* section callback was invoked for it and
                        \* returned true
    trace,              \* history: the callbacks invoked so far
    last                \* history: the logical line dispatched last

vars == <<pc, fstatus, files, alphabet, max_lines, section_arg, sect_callback, input, open_streams,
          section, next_section, skip, sections, root_section, errormsg,
          last_section_path, last_section_line, error_r, ret, nest, opened,
          accepts, trace, last>>

(***************************************************************************)
(* The operating system: open() and glob().  fs gives the status of each   *)
(* file of the directory at the time of the call.                          *)
(***************************************************************************)
Exists(fs, p) == FileOf(p) # "none" /\ fs[FileOf(p)] # "absent"

\* errno of open(p, O_RDONLY), "" when it succeeds
OpenErrno(fs, p) ==
    IF Len(p) > MaxPathLen THEN "ENAMETOOLONG"
    ELSE IF FileOf(p) = "none" THEN "ENOENT"
    ELSE CASE fs[FileOf(p)] = "present" -> ""
           [] fs[FileOf(p)] = "noperm" -> "EACCES"
           [] OTHER -> "ENOENT"

DirOf(p) == SubSeq(p, 1, Len(p) - 1)

\* what the braces of a pattern expand to, in expansion order
Expand(pattern) ==
    IF pattern[Len(pattern)] = "{b,c}"
    THEN <<DirOf(pattern) \o <<"b">>, DirOf(pattern) \o <<"c">>>>
    ELSE <<pattern>>

\* gl_pathv of glob(pattern, GLOB_BRACE): the existing names the pattern
\* expands to, in expansion order
GlobMatches(fs, pattern) ==
    LET Found(p) == Len(p) <= MaxPathLen /\ Exists(fs, p)
    IN  SelectSeq(Expand(pattern), Found)

\* the values glob() can return for the pattern
GlobReturns(fs, pattern) ==
    {IF GlobMatches(fs, pattern) = <<>> THEN "GLOB_NOMATCH" ELSE "0",
     "GLOB_NOSPACE", "GLOB_ABORTED", "GLOB_UNKNOWN"}

\* the files whose status decides what an include of the pattern does
Touched(pattern) ==
    {FileOf(Expand(pattern)[i]) : i \in 1..Len(Expand(pattern))} \ {"none"}

(***************************************************************************)
(* parse_setting_from_defs, get_bool, get_uint.  Strings are sequences of  *)
(* characters.                                                             *)
(***************************************************************************)
\* the length of a definition table
MaxDefs == 2

\* the fields of the settings struct, by offset: a string, an unsigned int
\* and a bool
Offsets == {1, 2, 3}
\* struct setting_def: the definitions a table is made of.  The name n is
\* defined twice, for different fields
SettingDefs ==
    {[type |-> "SET_STR", name |-> "s", offset |-> 1],
     [type |-> "SET_INT", name |-> "n", offset |-> 2],
     [type |-> "SET_BOOL", name |-> "b", offset |-> 3],
     [type |-> "SET_BOOL", name |-> "n", offset |-> 3]}
DefTables == UNION {[1..n -> SettingDefs] : n \in 0..MaxDefs}
SettingKeys == {"s", "n", "b", "u"}
SettingValues ==
    {<<"y", "e", "s">>, <<"N", "o">>, <<"1", "2">>, <<"0", "1", "7">>,
     <<"0", "x", "1", "f">>, <<"-", "1">>, <<" ", "+", "7", "z">>, <<>>}
\* the struct before the first call
InitialBase == [o \in Offsets |-> CASE o = 1 -> <<"i", "n", "i", "t">>
                                    [] o = 2 -> 99
                                    [] o = 3 -> FALSE]

VARIABLES
    defs,               \* the definition table passed to every call
    base,               \* the settings struct
    setting             \* history: the last call, its result, base before it

setter_vars == <<defs, base, setting>>

\* tolower() on the letters of "yes" and "no"
ToLower(c) ==
    CASE c = "Y" -> "y" [] c = "E" -> "e" [] c = "S" -> "s"
      [] c = "N" -> "n" [] c = "O" -> "o" [] OTHER -> c
\* strcasecmp(a, b) == 0
strcasecmp_eq(a, b) ==
    /\ Len(a) = Len(b)
    /\ \A i \in 1..Len(a) : ToLower(a[i]) = ToLower(b[i])

\* lines 31-41: the message returned and *result after the call
get_bool(value, result) ==
    IF strcasecmp_eq(value, <<"y", "e", "s">>)
    THEN [ret |-> NoMsg, result |-> TRUE]
    ELSE IF strcasecmp_eq(value, <<"n", "o">>)
    THEN [ret |-> NoMsg, result |-> FALSE]
    ELSE [ret |-> Msg("Invalid boolean", value), result |-> result]

\* the digits of sscanf's %i and their values
HexDigits == <<"0", "1", "2", "3", "4", "5", "6", "7", "8", "9",
               "a", "b", "c", "d", "e", "f">>
IsDigit(c, radix) == \E i \in 1..radix : HexDigits[i] = c
DigitValue(c) == (CHOOSE i \in 1..16 : HexDigits[i] = c) - 1

\* the digits at the head of str in the radix: how many and their value
RECURSIVE scan_digits(_, _, _, _)
scan_digits(str, radix, count, acc) ==
    IF str # <<>> /\ IsDigit(Head(str), radix)
    THEN scan_digits(Tail(str), radix, count + 1,
                     acc * radix + DigitValue(Head(str)))
    ELSE [count |-> count, num |-> acc]

RECURSIVE skip_space(_)
skip_space(str) ==
    IF str # <<>> /\ Head(str) \in {" ", "\t"} THEN skip_space(Tail(str))
    ELSE str

\* sscanf(value, "%i", &num): white space, a sign, 0x for hexadecimal or 0
\* for octal, then digits; what follows the digits is not looked at.
\* count is the return value (0 also stands for EOF), num the int stored;
\* the values of the model are too short to overflow an int
sscanf_i(value) ==
    LET str == skip_space(value)
        signed == str # <<>> /\ Head(str) \in {"-", "+"}
        negative == signed /\ Head(str) = "-"
        body == IF signed THEN Tail(str) ELSE str
        hex == /\ Len(body) >= 2
               /\ body[1] = "0"
               /\ body[2] \in {"x", "X"}
        radix == IF hex THEN 16
                 ELSE IF body # <<>> /\ Head(body) = "0" THEN 8
                 ELSE 10
        d == scan_digits(IF hex THEN Tail(Tail(body)) ELSE body, radix, 0, 0)
    IN  IF d.count = 0 THEN [count |-> 0, num |-> 0]
        ELSE [count |-> 1, num |-> IF negative THEN 0 - d.num ELSE d.num]

\* a get_uint that stores the number before it looks at its sign
get_uint_storing_first(value, result) ==
    LET r == sscanf_i(value)
    IN  IF r.count # 1 THEN [ret |-> Msg("Invalid number", value),
                             result |-> result]
        ELSE IF r.num < 0 THEN [ret |-> Msg("Invalid number", value),
                                result |-> r.num]
        ELSE [ret |-> NoMsg, result |-> r.num]

\* lines 43-51
get_uint(value, result) ==
    LET r == sscanf_i(value)
    IN  IF r.count # 1 \/ r.num < 0
        THEN [ret |-> Msg("Invalid number", value), result |-> result]
        ELSE [ret |-> NoMsg, result |-> r.num]

\* lines 92-117: the message returned and the struct after the call.  table
\* is what is left of defs from def on
RECURSIVE parse_setting_from_defs(_, _, _, _)
parse_setting_from_defs(table, struct, key, value) ==
    IF table = <<>> THEN [ret |-> Msg("Unknown setting", <<key>>),
                          base |-> struct]
    ELSE LET def == Head(table)
             ptr == def.offset
         IN  IF def.name = key
             THEN CASE def.type = "SET_STR" ->
                         [ret |-> NoMsg,
                          base |-> [struct EXCEPT ![ptr] = value]]
                    [] def.type = "SET_INT" ->
                         LET r == get_uint(value, struct[ptr])
                         IN  [ret |-> r.ret,
                              base |-> [struct EXCEPT ![ptr] = r.result]]
                    [] def.type = "SET_BOOL" ->
                         LET r == get_bool(value, struct[ptr])
                         IN  [ret |-> r.ret,
                              base |-> [struct EXCEPT ![ptr] = r.result]]
             ELSE parse_setting_from_defs(Tail(table), struct, key, value)

\* no call of parse_setting_from_defs
SetterIdle ==
    /\ defs = <<>>
    /\ base = InitialBase
    /\ setting = [called |-> FALSE, key |-> "", value |-> <<>>, ret |-> NoMsg,
                  before |-> InitialBase]

(***************************************************************************)
(* The line scanner of settings_read_i (lines 244-358), character by       *)
(* character.  A physical line, the line buffer full_line and a logical    *)
(* line are sequences of characters; NUL is the character '\0'.            *)
(***************************************************************************)
\* the physical lines read in one parse
MaxPhys == 3

NUL == "NUL"
IS_WHITE(c) == c \in {" ", "\t"}

\* the physical lines the files are written with
PhysLines ==
    {<<"k", " ", "=", " ", "v">>,                            \* k = v
     <<"a", " ", "=", " ", "1", " ", "\\">>,                 \* a = 1 \
     <<" ", " ", "2", " ", "#", " ", "c">>,                  \*   2 # c
     <<"\\">>,                                               \* \
     <<" ", "\\">>,                                          \*  \
     <<"#", " ", "\\">>,                                     \* # \
     <<>>,                                                   \* empty
     <<"!", "i", "n", "c", "l", "u", "d", "e", " ", "\\">>,  \* !include \
     <<"!", "i", "n", "c", "l", "u", "d", "e", " ", "b">>,   \* !include b
     <<"b">>,                                                \* b
     <<"s", " ", "{", " ", "k", " ", "=", " ", "v", " ", "}">>, \* s { k = v }
     <<"x", " ", "s", " ", "{">>,                            \* x s {
     <<"}">>,                                                \* }
     <<"k", "=", "\"", "#", "\"", "#", "c">>}                \* k="#"#c

\* the path of the file an include of `b` pushes
IncludedPath == <<"d", "b">>

VARIABLES
    full_line,          \* the buffer full_line, NULs included
    run,                \* history: the physical lines read since the last
                        \* logical line was completed or a file ended
    dispatched,         \* history: the logical lines completed so far
    nread,              \* the physical lines read so far
    included            \* TRUE once the file b was pushed

scanner_vars == <<full_line, run, dispatched, nread, included>>

\* lines 250-251, 308, 321, 352-353: while (IS_WHITE(*line)) line++
RECURSIVE skip_white(_)
skip_white(line) ==
    IF line # <<>> /\ IS_WHITE(Head(line)) THEN skip_white(Tail(line))
    ELSE line

\* lines 261-264: from p, the place of the closing quote, or past the end
RECURSIVE quote_end(_, _, _)
quote_end(line, p, quote) ==
    IF p > Len(line) THEN p
    ELSE IF line[p] = quote THEN p
    ELSE IF line[p] = "\\" /\ p + 1 <= Len(line)
    THEN quote_end(line, p + 2, quote)
    ELSE quote_end(line, p + 1, quote)

\* lines 258-277: from p, the place of the # that starts a comment, or past
\* the end when there is none
RECURSIVE comment_at(_, _)
comment_at(line, p) ==
    IF p > Len(line) THEN Len(line) + 1
    ELSE IF line[p] \in {"'", "\""}
    THEN LET q == quote_end(line, p + 1, line[p])
         IN  IF q > Len(line) THEN Len(line) + 1
             ELSE comment_at(line, q + 1)
    ELSE IF line[p] = "#" THEN p
    ELSE comment_at(line, p + 1)

\* lines 281-282, 288-289: while (IS_WHITE(line[len-1])) len--.  With
\* len = 0 the loop reads line[-1], the byte before the line: white_before
\* says whether that byte is white, and then len-- wraps around; the
\* result -1 stands for the wrapped size_t
RECURSIVE trim_white(_, _, _)
trim_white(line, len, white_before) ==
    IF len = 0 THEN (IF white_before THEN -1 ELSE 0)
    ELSE IF IS_WHITE(line[len]) THEN trim_white(line, len - 1, white_before)
    ELSE len

\* lines 249-293: what the scanner makes of a physical line.  kind is
\* "ignored" (comment or empty line), "continues" (the line ends with a
\* backslash), "complete", or "wrapped" (len wrapped around at line 289);
\* text is what is left of the line; warning is the i_warning of line 269.
\* white_before: whether the byte before the buffer of the line is white
scan_line(phys, white_before) ==
    LET line == skip_white(phys)
        lead == Len(phys) - Len(line)
        cut == comment_at(line, 1)
        stripped == SubSeq(line, 1, cut - 1)
        warning == cut <= Len(line) /\ ~IS_WHITE(line[cut - 1])
        len == trim_white(stripped, Len(stripped), lead > 0 \/ white_before)
        len2 == trim_white(stripped, len - 1, lead > 0 \/ white_before)
    IN  IF line = <<>> \/ Head(line) = "#"
        THEN [kind |-> "ignored", text |-> <<>>, warning |-> FALSE]
        ELSE IF len > 0 /\ stripped[len] = "\\"
        THEN IF len2 < 0
             THEN [kind |-> "wrapped", text |-> <<>>, warning |-> warning]
             ELSE [kind |-> "continues", text |-> SubSeq(stripped, 1, len2),
                   warning |-> warning]
        ELSE [kind |-> "complete", text |-> SubSeq(stripped, 1, len),
              warning |-> warning]

\* the C string at the start of a buffer: the characters before the first NUL
RECURSIVE CStr(_)
CStr(buf) ==
    IF buf = <<>> \/ Head(buf) = NUL THEN <<>>
    ELSE <<Head(buf)>> \o CStr(Tail(buf))

\* lines 294-297: the logical line the parser goes on with, and the buffer
\* it sits in when it was joined
joined(text) ==
    IF Len(full_line) > 0 THEN CStr(full_line \o text) ELSE text

\* lines 303-305: the place where the key ends
RECURSIVE key_end(_, _)
key_end(line, p) ==
    IF p > Len(line) \/ IS_WHITE(line[p]) \/ line[p] = "=" THEN p
    ELSE key_end(line, p + 1)

\* lines 346-348: the place where the section name ends
RECURSIVE name_end(_, _)
name_end(line, p) ==
    IF p > Len(line) \/ IS_WHITE(line[p]) THEN p
    ELSE name_end(line, p + 1)

INCLUDE_TRY == <<"!", "i", "n", "c", "l", "u", "d", "e", "_", "t", "r", "y">>
INCLUDE == <<"!", "i", "n", "c", "l", "u", "d", "e">>

\* lines 303-358: what a logical line is taken for.  kind: "include",
\* "assign", "open", "close" or "junk" (Expecting '='); arg: the pattern of
\* an include, the value of an assignment as written, the name of a
\* section; ignored: what stands after the { of a section open, which the
\* parser never looks at; spaced: the key was ended by writing a NUL over
\* the white space after it
classify(line) ==
    LET p == key_end(line, 1)
        key == SubSeq(line, 1, p - 1)
        spaced == p <= Len(line) /\ IS_WHITE(line[p])
        rest == IF spaced THEN skip_white(SubSeq(line, p + 1, Len(line)))
                ELSE SubSeq(line, p, Len(line))
        q == name_end(rest, 1)
        name == IF rest # <<>> /\ Head(rest) = "{" THEN <<>>
                ELSE SubSeq(rest, 1, q - 1)
        after == IF rest # <<>> /\ Head(rest) = "{" THEN rest
                 ELSE skip_white(SubSeq(rest, q + 1, Len(rest)))
        Result(kind, arg, ignored) ==
            [kind |-> kind, key |-> key, arg |-> arg, ignored |-> ignored,
             spaced |-> spaced]
    IN  IF key = INCLUDE_TRY \/ key = INCLUDE
        THEN Result("include", rest, <<>>)
        ELSE IF rest # <<>> /\ Head(rest) = "="
        THEN Result("assign", skip_white(Tail(rest)), <<>>)
        ELSE IF key # <<"}">> \/ rest # <<>>
        THEN IF after # <<>> /\ Head(after) = "{"
             THEN Result("open", name, Tail(after))
             ELSE Result("junk", name, <<>>)
        ELSE Result("close", <<>>, <<>>)

\* the line scanner is not running
ScannerIdle ==
    /\ full_line = <<>>
    /\ run = <<>>
    /\ dispatched = <<>>
    /\ nread = 0
    /\ included = FALSE

(***************************************************************************)
(* sdbox-sync.c: sdbox_sync_begin and sdbox_sync_finish.                   *)
(***************************************************************************)
SDBOX_REBUILD_COUNT == 3

\* the messages of the mailbox have the uids 1..MaxUids
MaxUids == 2
Uids == 1..MaxUids

\* the uids of a set in ascending order
RECURSIVE Ascending(_)
Ascending(S) ==
    IF S = {} THEN <<>>
    ELSE LET u == CHOOSE x \in S : \A y \in S : x <= y
         IN  <<u>> \o Ascending(S \ {u})

VARIABLES
    sync_pc,            \* where the caller of sdbox-sync.c is: "idle",
                        \* "attempt" (line 220), "index" (232), "resync"
                        \* (241), "rollback" (253), "returned" (begin is
                        \* over), "expunge" (163), "deinit" (288), "finished"
    sync_flags,         \* the flags argument and what lines 200-217 make of it
    rebuild, force_rebuild,
    sync_i,             \* the loop counter i
    sync_ret,           \* ret
    ctx,                \* struct sdbox_sync_context: allocated, expunged_uids,
                        \* index_sync_ctx
    ctx_r,              \* *ctx_r: "unset", "NULL" or "ctx"
    corrupted,          \* sdbox_set_mailbox_corrupted was called
    todo,               \* the expunged uids array_foreach_elem has not reached
    sync_log            \* history: the operations performed, in order

sdbox_vars == <<sync_pc, sync_flags, rebuild, force_rebuild, sync_i, sync_ret,
                ctx, ctx_r, corrupted, todo, sync_log>>

\* history record of an operation
Op(op, uid, r) == [op |-> op, uid |-> uid, ret |-> r]
\* how often an operation was performed
Count(op) == Cardinality({k \in 1..Len(sync_log) : sync_log[k].op = op})

\* lines 101-133: sdbox_sync_index.  hdr is what the index header says:
\* "valid", "new" (uid_validity = 0, next_uid = 1) or "broken"
\* (uid_validity = 0 otherwise); created is the result of
\* sdbox_mailbox_create_indexes; expunges are the uids of the expunge
\* records mail_index_sync_next returns.  The result is the return value,
\* whether the mailbox is marked corrupted, and ctx->expunged_uids
sdbox_sync_index(hdr, created, expunges) ==
    CASE hdr = "new" -> [ret |-> IF created < 0 THEN -1 ELSE 1,
                         corrupted |-> FALSE, expunged_uids |-> <<>>]
      [] hdr = "broken" -> [ret |-> 0, corrupted |-> TRUE,
                            expunged_uids |-> <<>>]
      [] OTHER -> [ret |-> 1, corrupted |-> FALSE,
                   expunged_uids |-> Ascending(expunges)]

\* a loop that allows one rebuild more
keeps_breaking_late(n) ==
    n > SDBOX_REBUILD_COUNT

\* line 242: the index was rebuilt too often
keeps_breaking(n) ==
    n >= SDBOX_REBUILD_COUNT

\* a sync that also notifies when the file was already gone
notifies_unless_error(r) ==
    r >= 0

\* line 151: do sync_notify only when the file was unlinked by us
notifies(r) ==
    r > 0

\* sdbox-sync.c is not running
SdboxIdle ==
    /\ sync_pc = "idle"
    /\ sync_flags = [force_rebuild |-> FALSE, force |-> FALSE,
                     require_changes |-> FALSE]
    /\ rebuild = FALSE
    /\ force_rebuild = FALSE
    /\ sync_i = 0
    /\ sync_ret = 0
    /\ ctx = [allocated |-> FALSE, expunged_uids |-> <<>>,
              index_sync_ctx |-> "none"]
    /\ ctx_r = "unset"
    /\ corrupted = FALSE
    /\ todo = <<>>
    /\ sync_log = <<>>

(***************************************************************************)
(* fix_relative_path, settings_add_include, settings_include.              *)
(***************************************************************************)
fix_relative_path(path, frame) ==
    IF IsAbsolute(path) THEN path
    ELSE IF Len(frame.path) = 1 THEN path
    ELSE DirOf(frame.path) \o path

Frame(path) == [path |-> path, linenum |-> 0]

\* a settings_add_include that opens the file and pushes no frame for it
settings_add_include_not_pushing(fs, path, inputp, ignore_errors) ==
    IF \E i \in 1..Len(inputp) : inputp[i].path = path
    THEN [ret |-> -1, input |-> inputp,
          error |-> Msg("Recursive include file", path)]
    ELSE IF OpenErrno(fs, path) # "" /\ ~ignore_errors
    THEN [ret |-> -1, input |-> inputp,
          error |-> ErrnoMsg("Couldn't open include file", path,
                             OpenErrno(fs, path))]
    ELSE [ret |-> 0, input |-> inputp, error |-> NoMsg]

\* the result of settings_add_include and settings_include: the return
\* value, *inputp and *error_r
settings_add_include(fs, path, inputp, ignore_errors) ==
    IF \E i \in 1..Len(inputp) : inputp[i].path = path
    THEN [ret |-> -1, input |-> inputp,
          error |-> Msg("Recursive include file", path)]
    ELSE IF OpenErrno(fs, path) # ""
    THEN IF ignore_errors
         THEN [ret |-> 0, input |-> inputp, error |-> NoMsg]
         ELSE [ret |-> -1, input |-> inputp,
               error |-> ErrnoMsg("Couldn't open include file", path,
                                  OpenErrno(fs, path))]
    ELSE [ret |-> 0, input |-> Append(inputp, Frame(path)), error |-> NoMsg]

RECURSIVE add_matches(_, _, _, _)
add_matches(fs, pathv, inputp, ignore_errors) ==
    IF pathv = <<>> THEN [ret |-> 0, input |-> inputp, error |-> NoMsg]
    ELSE LET r == settings_add_include(fs, Head(pathv), inputp, ignore_errors)
         IN  IF r.ret < 0 THEN r
             ELSE add_matches(fs, Tail(pathv), r.input, ignore_errors)

settings_include(fs, pattern, inputp, ignore_errors, globret) ==
    CASE globret = "0" ->
           add_matches(fs, GlobMatches(fs, pattern), inputp, ignore_errors)
      [] globret = "GLOB_NOSPACE" ->
           [ret |-> -1, input |-> inputp,
            error |-> Msg("glob() failed: Not enough memory", <<>>)]
      [] globret = "GLOB_ABORTED" ->
           [ret |-> -1, input |-> inputp,
            error |-> Msg("glob() failed: Read error", <<>>)]
      [] globret = "GLOB_NOMATCH" ->
           IF ignore_errors
           THEN [ret |-> 0, input |-> inputp, error |-> NoMsg]
           ELSE [ret |-> -1, input |-> inputp, error |-> Msg("No matches", <<>>)]
      [] OTHER ->
           [ret |-> -1, input |-> inputp,
            error |-> Msg("glob() failed: Unknown error", <<>>)]

(***************************************************************************)
(* settings_read_i.                                                        *)
(***************************************************************************)
Top(stack) == stack[Len(stack)]
Pop(stack) == SubSeq(stack, 1, Len(stack) - 1)

RECURSIVE SumLines(_)
SumLines(S) ==
    IF S = {} THEN 0
    ELSE LET f == CHOOSE x \in S : TRUE
         IN  Len(files[f].lines) + SumLines(S \ {f})
TotalLines == SumLines(FileNames)

CurFile == FileOf(Top(input).path)

\* i_stream_read_next_line(input->input) returns the line l
Reads(l) ==
    /\ pc = "read"
    /\ IF Top(input).linenum < Len(files[CurFile].lines)
       THEN l = files[CurFile].lines[Top(input).linenum + 1]
       ELSE ~files[CurFile].eof /\ TotalLines < max_lines /\ l \in alphabet
FilesAfter(l) ==
    IF Top(input).linenum < Len(files[CurFile].lines) THEN files
    ELSE [files EXCEPT ![CurFile].lines = Append(@, l)]

\* input->linenum++
Bumped == [input EXCEPT ![Len(input)].linenum = @ + 1]

\* history records
Event(cb, stack) ==
    [cb |-> cb, path |-> Top(input).path, line |-> Top(input).linenum + 1,
     nest |-> stack, skip |-> skip]
\* skip, sections, nest: as they were when the line was read; dskip: skip
\* when the line was dispatched; pattern: what an include directive globs;
\* changed_path, changed_line: last_section_path and last_section_line as
\* they were when the line was read; accepted: whether the innermost open
\* section was accepted
Last(kind, called) ==
    [kind |-> kind, path |-> Top(input).path, line |-> Top(input).linenum + 1,
     skip |-> skip, dskip |-> skip, sections |-> sections, nest |-> nest,
     called |-> called, pattern |-> <<>>,
     changed_path |-> last_section_path, changed_line |-> last_section_line,
     accepted |-> (accepts # <<>> /\ accepts[Len(accepts)])]

\* the state at the call of settings_read_i(RootPath, section_arg, ...)
InitCall ==
    /\ pc = "start"
    /\ fstatus = [f \in FileNames |-> "unknown"]
    /\ files = [f \in FileNames |-> [lines |-> <<>>, eof |-> FALSE]]
    /\ input = <<>>
    /\ open_streams = 0
    /\ section = <<>>
    /\ next_section = NULL
    /\ skip = 0
    /\ sections = 0
    /\ root_section = 0
    /\ errormsg = NoMsg
    /\ last_section_path = <<>>
    /\ last_section_line = 0
    /\ error_r = NoError
    /\ ret = FALSE
    /\ nest = <<>>
    /\ trace = <<>>
    /\ opened = {}
    /\ accepts = <<>>
    /\ last = [kind |-> "none", path |-> <<>>, line |-> 0, skip |-> 0,
               dskip |-> 0, sections |-> 0, nest |-> <<>>, called |-> FALSE,
               pattern |-> <<>>, changed_path |-> <<>>, changed_line |-> 0,
               accepted |-> FALSE]

\* a root file without include directives, any selector, any callbacks
InitSections ==
    /\ InitCall
    /\ SetterIdle
    /\ ScannerIdle
    /\ SdboxIdle
    /\ alphabet = SectionAlphabet
    /\ max_lines = MaxLines
    /\ section_arg \in Sections
    /\ sect_callback \in BOOLEAN

\* files that include other files, read without a selector
InitIncludes ==
    /\ InitCall
    /\ SetterIdle
    /\ ScannerIdle
    /\ SdboxIdle
    /\ alphabet = IncludeAlphabet
    /\ max_lines = MaxInclLines
    /\ section_arg \in {s \in Sections : s.null}
    /\ sect_callback = TRUE

\* lines 220-242: open the root file and initialise the parser
OpenRoot ==
    /\ pc = "start"
    /\ \E st \in {"present", "noperm", "absent"} :
        /\ fstatus' = [fstatus EXCEPT !["a"] = st]
        /\ IF OpenErrno(fstatus', RootPath) # ""
           THEN /\ error_r' = BareError(ErrnoMsg("Can't open configuration file",
                                        RootPath, OpenErrno(fstatus', RootPath)))
                /\ pc' = "done"
                /\ ret' = FALSE
                /\ UNCHANGED <<input, open_streams, section, next_section, skip>>
           ELSE /\ skip' = IF section_arg.null THEN 0 ELSE 1
                /\ section' = section_arg.comps
                /\ next_section' = IF section_arg.null THEN NULL
                                   ELSE Head(section_arg.comps)
                /\ input' = <<Frame(RootPath)>>
                /\ open_streams' = 1
                /\ pc' = "read"
                /\ UNCHANGED <<error_r, ret>>
    /\ UNCHANGED <<files, alphabet, max_lines, section_arg, sect_callback,
                   sections, root_section,
                   errormsg, last_section_path, last_section_line, nest,
                   opened, accepts, trace, last>>

\* a parser that goes on reading after an error
EndOfIteration_ignoring_errors(stack, msg, quit) ==
    /\ errormsg' = msg
    /\ IF quit
       THEN /\ input' = Pop(stack)
            /\ open_streams' = open_streams + (Len(stack) - Len(input)) - 1
            /\ pc' = "done"
            /\ ret' = (msg = NoMsg)
            /\ UNCHANGED error_r
       ELSE /\ input' = stack
            /\ open_streams' = open_streams + (Len(stack) - Len(input))
            /\ pc' = "read"
            /\ UNCHANGED <<error_r, ret>>

\* lines 419-433: the end of an iteration.  stack is the input stack and msg
\* is errormsg after the line was handled; quit is the break at line 410
EndOfIteration(stack, msg, quit) ==
    /\ errormsg' = msg
    /\ IF msg # NoMsg \/ quit
       THEN /\ error_r' = IF msg # NoMsg
                          THEN ErrorInFile(Top(stack).path, Top(stack).linenum, msg)
                          ELSE error_r
            /\ input' = Pop(stack)
            /\ open_streams' = open_streams + (Len(stack) - Len(input)) - 1
            /\ pc' = "done"
            /\ ret' = (msg = NoMsg)
       ELSE /\ input' = stack
            /\ open_streams' = open_streams + (Len(stack) - Len(input))
            /\ pc' = "read"
            /\ UNCHANGED <<error_r, ret>>

\* a parser that forgets to look at skip
dispatches_always(sk) == TRUE

\* lines 337, 376, 400: a callback is invoked unless skip > 0
dispatches(sk) == ~(sk > 0)

\* lines 318-338: key = value
Assignment ==
    \E l \in AssignLines, r \in CallbackErrors :
        /\ Reads(l)
        /\ files' = FilesAfter(l)
        /\ LET called == dispatches(skip)
           IN  /\ trace' = IF called THEN Append(trace, Event("kv", nest))
                           ELSE trace
               /\ last' = Last("assign", called)
               /\ EndOfIteration(Bumped, IF called THEN r ELSE NoMsg, FALSE)
        /\ UNCHANGED <<fstatus, alphabet, max_lines, section_arg,
                       sect_callback, section,
                       next_section, skip, sections, root_section,
                       last_section_path, last_section_line, nest, opened,
                       accepts>>

\* lines 357-358: neither key = value, nor a section, nor }
SyntaxError ==
    \E l \in JunkLines :
        /\ Reads(l)
        /\ files' = FilesAfter(l)
        /\ last' = Last("junk", FALSE)
        /\ EndOfIteration(Bumped, Msg("Expecting '='", <<>>), FALSE)
        /\ UNCHANGED <<fstatus, alphabet, max_lines, section_arg,
                       sect_callback, section,
                       next_section, skip, sections, root_section,
                       last_section_path, last_section_line, nest, opened,
                       accepts, trace>>

\* lines 426-433: the file on top of the stack is exhausted
EndOfFile ==
    /\ pc = "read"
    /\ Top(input).linenum = Len(files[CurFile].lines)
    /\ files' = [files EXCEPT ![CurFile].eof = TRUE]
    /\ input' = Pop(input)
    /\ open_streams' = open_streams - 1
    /\ IF input' # <<>>
       THEN pc' = "read" /\ UNCHANGED ret
       ELSE pc' = "done" /\ ret' = (errormsg = NoMsg)
    /\ last' = Last("eof", FALSE)
    /\ UNCHANGED <<fstatus, alphabet, max_lines, section_arg, sect_callback,
                   section, next_section,
                   skip, sections, root_section, errormsg, last_section_path,
                   last_section_line, error_r, nest, opened, accepts, trace>>

\* lines 361-374: a section open against the selector.  The result is
\* section, next_section, root_section and skip after the match
match_section(name) ==
    IF next_section # NULL /\ next_section = name
    THEN IF Tail(section) = <<>>
         THEN [section |-> Tail(section), next_section |-> NULL,
               root_section |-> sections + 1, skip |-> 0]
         ELSE [section |-> Tail(section), next_section |-> Head(Tail(section)),
               root_section |-> root_section, skip |-> skip]
    ELSE [section |-> section, next_section |-> next_section,
          root_section |-> root_section, skip |-> skip]

\* a parser that counts no section that is opened while skipping
skip_after_open_uncounted(sk, accepted) ==
    IF sk > 0 THEN sk
    ELSE IF ~sect_callback THEN 1
    ELSE IF accepted THEN 0 ELSE 1

\* lines 376-382: skip after a section open; accepted is what the section
\* callback returns
skip_after_open(sk, accepted) ==
    IF sk > 0 THEN sk + 1
    ELSE IF ~sect_callback THEN 1
    ELSE IF accepted THEN 0 ELSE 1

\* lines 383-390: the error of a section callback names the last section
section_error(msg) ==
    IF msg # NoMsg /\ last_section_line # 0
    THEN SECTION_ERRORMSG(msg, last_section_path, last_section_line)
    ELSE msg

\* lines 339-394: section_type [section_name] {
SectionOpen ==
    \E l \in OpenLines, accepted \in BOOLEAN, r \in CallbackErrors :
        /\ Reads(l)
        /\ files' = FilesAfter(l)
        /\ LET m == match_section(l.name)
               called == dispatches(m.skip) /\ sect_callback
           IN  /\ sections' = sections + 1
               /\ section' = m.section
               /\ next_section' = m.next_section
               /\ root_section' = m.root_section
               /\ skip' = skip_after_open(m.skip, accepted)
               /\ nest' = Append(nest, l.name)
               /\ opened' = opened \cup {nest'}
               /\ accepts' = Append(accepts, called /\ accepted)
               /\ trace' = IF called THEN Append(trace, Event("open", nest'))
                           ELSE trace
               /\ last' = [Last("open", called) EXCEPT !.dskip = m.skip]
               /\ EndOfIteration(Bumped,
                                 IF called THEN section_error(r) ELSE NoMsg,
                                 FALSE)
        /\ last_section_path' = Top(input).path
        /\ last_section_line' = Top(input).linenum + 1
        /\ UNCHANGED <<fstatus, alphabet, max_lines, section_arg,
                       sect_callback>>

\* lines 400-401: skip after a section close
skip_after_close(sk) == IF sk > 0 THEN sk - 1 ELSE sk

\* lines 406-411: the close of the targeted section ends the parse
quits(msg) == root_section = sections /\ msg = NoMsg

\* lines 395-417: }
SectionClose ==
    \E l \in CloseLines, r \in CallbackErrors :
        /\ Reads(l)
        /\ files' = FilesAfter(l)
        /\ IF sections = 0
           THEN /\ last' = Last("close", FALSE)
                /\ EndOfIteration(Bumped, Msg("Unexpected '}'", <<>>), FALSE)
                /\ UNCHANGED <<skip, sections, last_section_path,
                               last_section_line, nest, accepts, trace>>
           ELSE IF dispatches(skip) /\ ~sect_callback
           THEN \* i_assert(sect_callback != NULL) fails: the process panics
                /\ pc' = "panic"
                /\ input' = Bumped
                /\ last' = Last("close", FALSE)
                /\ UNCHANGED <<skip, sections, last_section_path,
                               last_section_line, nest, accepts, trace,
                               errormsg, error_r, ret, open_streams>>
           ELSE LET called == dispatches(skip)
                    msg == IF called THEN r ELSE NoMsg
                    quit == called /\ quits(msg)
                IN  /\ skip' = skip_after_close(skip)
                    /\ trace' = IF called
                                THEN Append(trace, Event("close", nest))
                                ELSE trace
                    /\ last' = Last("close", called)
                    /\ IF quit
                       THEN UNCHANGED <<sections, last_section_path,
                                        last_section_line, nest, accepts>>
                       ELSE /\ sections' = sections - 1
                            /\ last_section_path' = Top(input).path
                            /\ last_section_line' = Top(input).linenum + 1
                            /\ nest' = Pop(nest)
                            /\ accepts' = Pop(accepts)
                    /\ EndOfIteration(Bumped, msg, quit)
        /\ UNCHANGED <<fstatus, alphabet, max_lines, section_arg,
                       sect_callback, section, next_section, root_section,
                       opened>>

\* the statuses the files can turn out to have when the files in T are
\* looked at
Resolved(T) ==
    {[f \in FileNames |-> IF f \in T /\ fstatus[f] = "unknown" THEN g[f]
                          ELSE fstatus[f]] : g \in [T -> FileStatus]}

\* lines 311-317: !include and !include_try
Include ==
    \E l \in IncludeLines :
        /\ Reads(l)
        /\ files' = FilesAfter(l)
        /\ LET pattern == fix_relative_path(l.pattern, Top(input))
           IN  \E fs \in Resolved(Touched(pattern)) :
               \E globret \in GlobReturns(fs, pattern) :
                   LET r == settings_include(fs, pattern, Bumped,
                                             l.key = "!include_try", globret)
                   IN  /\ fstatus' = fs
                       /\ IF r.ret = 0
                          THEN EndOfIteration(r.input, NoMsg, FALSE)
                          ELSE EndOfIteration(r.input, r.error, FALSE)
        /\ last' = [Last(l.key, FALSE) EXCEPT
                        !.pattern = fix_relative_path(l.pattern, Top(input))]
        /\ UNCHANGED <<alphabet, max_lines, section_arg, sect_callback,
                       section, next_section, skip, sections, root_section,
                       last_section_path, last_section_line, nest, opened,
                       accepts, trace>>

\* the variables of the other functions of the file, which settings_read_i
\* does not touch
other_vars == <<setter_vars, scanner_vars, sdbox_vars>>

\* settings_read_i on a file without include directives
NextSections ==
    \/ OpenRoot /\ UNCHANGED other_vars
    \/ Assignment /\ UNCHANGED other_vars
    \/ SectionOpen /\ UNCHANGED other_vars
    \/ SectionClose /\ UNCHANGED other_vars
    \/ SyntaxError /\ UNCHANGED other_vars
    \/ EndOfFile /\ UNCHANGED other_vars

SpecSections == InitSections /\ [][NextSections]_vars

\* settings_read_i on files with include directives
NextIncludes ==
    \/ OpenRoot /\ UNCHANGED other_vars
    \/ Assignment /\ UNCHANGED other_vars
    \/ SectionOpen /\ UNCHANGED other_vars
    \/ SectionClose /\ UNCHANGED other_vars
    \/ SyntaxError /\ UNCHANGED other_vars
    \/ Include /\ UNCHANGED other_vars
    \/ EndOfFile /\ UNCHANGED other_vars

SpecIncludes == InitIncludes /\ [][NextIncludes]_vars

\* the lines of files that include other files from inside sections
SkippedAlphabet ==
    AssignLines \cup {Line("open", "x", "s", <<>>)} \cup CloseLines
    \cup {Line("include", "!include", "", <<"{b,c}">>),
          Line("include", "!include_try", "", <<"b">>)}

\* files that include other files from inside sections the section
\* callback may reject, read without a selector
InitSkipped ==
    /\ InitCall
    /\ SetterIdle
    /\ ScannerIdle
    /\ SdboxIdle
    /\ alphabet = SkippedAlphabet
    /\ max_lines = MaxInclLines
    /\ section_arg \in {s \in Sections : s.null}
    /\ sect_callback = TRUE

NextSkipped ==
    \/ OpenRoot /\ UNCHANGED other_vars
    \/ Assignment /\ UNCHANGED other_vars
    \/ SectionOpen /\ UNCHANGED other_vars
    \/ SectionClose /\ UNCHANGED other_vars
    \/ Include /\ UNCHANGED other_vars
    \/ EndOfFile /\ UNCHANGED other_vars

SpecSkipped == InitSkipped /\ [][NextSkipped]_vars

TypeOK ==
    /\ pc \in {"start", "read", "done", "panic"}
    /\ skip \in Nat
    /\ sections \in Nat
    /\ open_streams \in Nat
    /\ Len(nest) = sections

\* settings_read_i is not running
ParserIdle ==
    /\ InitCall
    /\ alphabet = {}
    /\ max_lines = 0
    /\ section_arg = [null |-> TRUE, comps |-> <<>>]
    /\ sect_callback = FALSE

\* a caller with a definition table and a struct
InitDefs ==
    /\ defs \in DefTables
    /\ base = InitialBase
    /\ setting = [called |-> FALSE, key |-> "", value |-> <<>>, ret |-> NoMsg,
                  before |-> InitialBase]
    /\ ParserIdle
    /\ ScannerIdle
    /\ SdboxIdle

\* one call parse_setting_from_defs(pool, defs, base, key, value)
ParseSetting ==
    \E key \in SettingKeys, value \in SettingValues :
        LET r == parse_setting_from_defs(defs, base, key, value)
        IN  /\ base' = r.base
            /\ setting' = [called |-> TRUE, key |-> key, value |-> value,
                           ret |-> r.ret, before |-> base]
            /\ UNCHANGED defs

NextDefs == ParseSetting /\ UNCHANGED <<vars, scanner_vars, sdbox_vars>>

SpecDefs == InitDefs /\ [][NextDefs]_<<vars, setter_vars, scanner_vars>>

\* settings_read_i(RootPath, NULL, callback, sect_callback, ...) seen line
\* by physical line
InitLines ==
    /\ InitCall
    /\ alphabet = {}
    /\ max_lines = 0
    /\ section_arg = [null |-> TRUE, comps |-> <<>>]
    /\ sect_callback = TRUE
    /\ SetterIdle
    /\ ScannerIdle
    /\ SdboxIdle

\* lines 244-245: i_stream_read_next_line returns the physical line phys
ReadsPhys(phys) ==
    /\ pc = "read"
    /\ nread < MaxPhys
    /\ phys \in PhysLines

\* the logical line a physical line completes, and what it is taken for
Completes(phys, c) ==
    /\ ReadsPhys(phys)
    /\ scan_line(phys, FALSE).kind = "complete"
    /\ c = classify(joined(scan_line(phys, FALSE).text))

\* line 295: full_line after the last physical line was appended to it
Buffer(phys) ==
    IF Len(full_line) > 0 THEN full_line \o scan_line(phys, FALSE).text
    ELSE full_line

\* history record of a logical line; called: a callback was invoked
Logical(phys, c, called) ==
    [kind |-> c.kind, key |-> c.key, arg |-> c.arg, ignored |-> c.ignored,
     text |-> joined(scan_line(phys, FALSE).text),
     path |-> Top(input).path, line |-> Top(input).linenum + 1,
     run |-> Append(run, phys), called |-> called]

\* what every step that completes a logical line does to the history
Completed(phys, c, called) ==
    /\ dispatched' = Append(dispatched, Logical(phys, c, called))
    /\ run' = <<>>
    /\ nread' = nread + 1

\* lines 254-255: a comment or an empty line
ScanIgnored ==
    \E phys \in PhysLines :
        /\ ReadsPhys(phys)
        /\ scan_line(phys, FALSE).kind = "ignored"
        /\ input' = Bumped
        /\ nread' = nread + 1
        /\ run' = IF run = <<>> THEN run ELSE Append(run, phys)
        /\ UNCHANGED <<pc, errormsg, error_r, ret, open_streams, skip,
                       sections, nest, last_section_path, last_section_line,
                       full_line, dispatched, included>>

\* lines 285-293: the line ends with a backslash
ScanContinued ==
    \E phys \in PhysLines, white_before \in BOOLEAN :
        /\ ReadsPhys(phys)
        /\ scan_line(phys, white_before).kind = "continues"
        /\ full_line' = full_line \o scan_line(phys, white_before).text
                            \o <<" ">>
        /\ input' = Bumped
        /\ nread' = nread + 1
        /\ run' = Append(run, phys)
        /\ UNCHANGED <<pc, errormsg, error_r, ret, open_streams, skip,
                       sections, nest, last_section_path, last_section_line,
                       dispatched, included>>

\* lines 288-290: len wrapped around; str_append_data is called with a
\* length no buffer can hold and the process dies
ScanWrapped ==
    \E phys \in PhysLines, white_before \in BOOLEAN :
        /\ ReadsPhys(phys)
        /\ scan_line(phys, white_before).kind = "wrapped"
        /\ pc' = "panic"
        /\ input' = Bumped
        /\ nread' = nread + 1
        /\ run' = Append(run, phys)
        /\ UNCHANGED <<errormsg, error_r, ret, open_streams, skip,
                       sections, nest, last_section_path, last_section_line,
                       full_line, dispatched, included>>

\* lines 318-338 and 419-425: key = value
ScanAssign ==
    \E phys \in PhysLines, r \in CallbackErrors :
        \E c \in {classify(joined(scan_line(phys, FALSE).text))} :
            /\ Completes(phys, c)
            /\ c.kind = "assign"
            /\ LET called == dispatches(skip)
                   msg == IF called THEN r ELSE NoMsg
               IN  /\ Completed(phys, c, called)
                   /\ EndOfIteration(Bumped, msg, FALSE)
                   /\ full_line' = IF msg = NoMsg THEN <<>> ELSE Buffer(phys)
            /\ UNCHANGED <<skip, sections, nest, last_section_path,
                           last_section_line, included>>

\* lines 339-358 and 419-423: neither key = value, nor a section, nor }
ScanJunk ==
    \E phys \in PhysLines :
        \E c \in {classify(joined(scan_line(phys, FALSE).text))} :
            /\ Completes(phys, c)
            /\ c.kind = "junk"
            /\ Completed(phys, c, FALSE)
            /\ EndOfIteration(Bumped, Msg("Expecting '='", <<>>), FALSE)
            /\ full_line' = Buffer(phys)
            /\ UNCHANGED <<skip, sections, nest, last_section_path,
                           last_section_line, included>>

\* lines 339-394 and 419-425: section_type [section_name] {
ScanOpen ==
    \E phys \in PhysLines, accepted \in BOOLEAN, r \in CallbackErrors :
        \E c \in {classify(joined(scan_line(phys, FALSE).text))} :
            /\ Completes(phys, c)
            /\ c.kind = "open"
            /\ LET called == dispatches(skip)
                   msg == IF called THEN section_error(r) ELSE NoMsg
               IN  /\ Completed(phys, c, called)
                   /\ sections' = sections + 1
                   /\ nest' = Append(nest, c.arg)
                   /\ skip' = skip_after_open(skip, accepted)
                   /\ EndOfIteration(Bumped, msg, FALSE)
                   /\ full_line' = IF msg = NoMsg THEN <<>> ELSE Buffer(phys)
            /\ last_section_path' = Top(input).path
            /\ last_section_line' = Top(input).linenum + 1
            /\ UNCHANGED included

\* lines 395-425: }
ScanClose ==
    \E phys \in PhysLines, r \in CallbackErrors :
        \E c \in {classify(joined(scan_line(phys, FALSE).text))} :
            /\ Completes(phys, c)
            /\ c.kind = "close"
            /\ IF sections = 0
               THEN /\ Completed(phys, c, FALSE)
                    /\ EndOfIteration(Bumped, Msg("Unexpected '}'", <<>>), FALSE)
                    /\ full_line' = Buffer(phys)
                    /\ UNCHANGED <<skip, sections, nest, last_section_path,
                                   last_section_line>>
               ELSE LET called == dispatches(skip)
                        msg == IF called THEN r ELSE NoMsg
                    IN  /\ Completed(phys, c, called)
                        /\ skip' = skip_after_close(skip)
                        /\ sections' = sections - 1
                        /\ nest' = Pop(nest)
                        /\ last_section_path' = Top(input).path
                        /\ last_section_line' = Top(input).linenum + 1
                        /\ EndOfIteration(Bumped, msg, FALSE)
                        /\ full_line' = IF msg = NoMsg THEN <<>>
                                        ELSE Buffer(phys)
            /\ UNCHANGED included

\* line 307 on a joined line: the NUL that ends the key is written into
\* full_line
KeyEnded(buf, c) ==
    IF c.spaced THEN [buf EXCEPT ![Len(c.key) + 1] = NUL] ELSE buf

\* lines 311-317 and 419-423: !include and !include_try.  The only file a
\* pattern can name is b, which is included at most once; an include of
\* anything else fails, or pushes nothing that has a line to read.  After
\* an include that returned 0 the parser jumps to prevfile: full_line is
\* not truncated
ScanInclude ==
    \E phys \in PhysLines, outcome \in {"pushed", "nothing", "error"} :
        \E c \in {classify(joined(scan_line(phys, FALSE).text))} :
            /\ Completes(phys, c)
            /\ c.kind = "include"
            /\ Completed(phys, c, FALSE)
            /\ (outcome = "pushed") = (c.arg = <<"b">>)
            /\ c.arg = <<"b">> => ~included
            /\ included' = (included \/ outcome = "pushed")
            /\ CASE outcome = "pushed" ->
                      /\ EndOfIteration(Append(Bumped, Frame(IncludedPath)),
                                        NoMsg, FALSE)
                      /\ full_line' = KeyEnded(Buffer(phys), c)
                 [] outcome = "nothing" ->
                      /\ EndOfIteration(Bumped, NoMsg, FALSE)
                      /\ full_line' = KeyEnded(Buffer(phys), c)
                 [] outcome = "error" ->
                      /\ EndOfIteration(Bumped, Msg("No matches", <<>>), FALSE)
                      /\ full_line' = Buffer(phys)
            /\ UNCHANGED <<skip, sections, nest, last_section_path,
                           last_section_line>>

\* lines 426-433: the file on top of the stack has no more lines
ScanEndOfFile ==
    /\ pc = "read"
    /\ input' = Pop(input)
    /\ open_streams' = open_streams - 1
    /\ IF input' # <<>>
       THEN pc' = "read" /\ UNCHANGED ret
       ELSE pc' = "done" /\ ret' = (errormsg = NoMsg)
    /\ run' = <<>>
    /\ UNCHANGED <<errormsg, error_r, skip, sections, nest, last_section_path,
                   last_section_line, full_line, dispatched, nread, included>>

\* what the line scanner leaves alone
scanner_frame ==
    <<fstatus, files, alphabet, max_lines, section_arg, sect_callback,
      section, next_section, root_section, opened, accepts, trace, last,
      setter_vars, sdbox_vars>>

NextLines ==
    \/ OpenRoot /\ UNCHANGED other_vars
    \/ ScanIgnored /\ UNCHANGED scanner_frame
    \/ ScanContinued /\ UNCHANGED scanner_frame
    \/ ScanWrapped /\ UNCHANGED scanner_frame
    \/ ScanAssign /\ UNCHANGED scanner_frame
    \/ ScanJunk /\ UNCHANGED scanner_frame
    \/ ScanOpen /\ UNCHANGED scanner_frame
    \/ ScanClose /\ UNCHANGED scanner_frame
    \/ ScanInclude /\ UNCHANGED scanner_frame
    \/ ScanEndOfFile /\ UNCHANGED scanner_frame

SpecLines == InitLines /\ [][NextLines]_<<vars, setter_vars, scanner_vars>>

\* a caller of sdbox_sync_begin and then of sdbox_sync_finish
InitSdbox ==
    /\ SdboxIdle
    /\ ParserIdle
    /\ SetterIdle
    /\ ScannerIdle

Logged(op, uid, r) == sync_log' = Append(sync_log, Op(op, uid, r))

\* array_free(&ctx->expunged_uids); i_free(ctx)
Freed == [ctx EXCEPT !.allocated = FALSE, !.expunged_uids = <<>>]

\* lines 189-217: sdbox_sync_begin is called
SyncBeginCall ==
    /\ sync_pc = "idle"
    /\ \E force_flag, force_rebuild_flag, fsckd, count_nonzero \in BOOLEAN,
          refreshed \in {0, -1} :
        /\ force_rebuild' = force_rebuild_flag
        /\ rebuild' = (force_rebuild_flag \/ fsckd \/ count_nonzero
                       \/ refreshed < 0)
        /\ sync_flags' = [force_rebuild |-> force_rebuild_flag,
                          force |-> force_flag,
                          require_changes |-> (~rebuild' /\ ~force_flag)]
    /\ ctx' = [allocated |-> TRUE, expunged_uids |-> <<>>,
               index_sync_ctx |-> "none"]
    /\ sync_i' = 0
    /\ sync_pc' = "attempt"
    /\ UNCHANGED <<sync_ret, ctx_r, corrupted, todo, sync_log>>

\* lines 220-230: index_storage_expunged_sync_begin
IndexSyncBegin ==
    /\ sync_pc = "attempt"
    /\ \E r \in {-1, 0, 1}, fscked \in BOOLEAN :
        /\ Logged("sync_begin", 0, r)
        /\ corrupted' = (corrupted \/ fscked)
        /\ sync_ret' = r
        /\ IF r <= 0
           THEN /\ ctx' = Freed
                /\ ctx_r' = "NULL"
                /\ sync_pc' = "returned"
           ELSE /\ ctx' = [ctx EXCEPT !.index_sync_ctx = "open"]
                /\ sync_pc' = "index"
                /\ UNCHANGED ctx_r
    /\ UNCHANGED <<sync_flags, rebuild, force_rebuild, sync_i, todo>>

\* lines 232-237 and 262-263: rebuild asked for, or sdbox_sync_index
SyncIndex ==
    /\ sync_pc = "index"
    /\ IF rebuild
       THEN /\ sync_ret' = 0
            /\ sync_pc' = "resync"
            /\ UNCHANGED <<ctx, ctx_r, corrupted>>
       ELSE \E hdr \in {"valid", "new", "broken"}, created \in {0, -1},
               expunges \in SUBSET Uids :
                LET r == sdbox_sync_index(hdr, created, expunges)
                IN  /\ corrupted' = (corrupted \/ r.corrupted)
                    /\ ctx' = [ctx EXCEPT !.expunged_uids = r.expunged_uids]
                    /\ IF r.ret > 0
                       THEN /\ ctx_r' = "ctx"
                            /\ sync_ret' = 0
                            /\ sync_pc' = "returned"
                       ELSE /\ sync_ret' = r.ret
                            /\ sync_pc' = IF r.ret = 0 THEN "resync"
                                          ELSE "rollback"
                            /\ UNCHANGED ctx_r
    /\ UNCHANGED <<sync_flags, rebuild, force_rebuild, sync_i, todo, sync_log>>

\* lines 241-252: the index is broken: rebuild it, unless it keeps breaking
Resync ==
    /\ sync_pc = "resync"
    /\ IF keeps_breaking(sync_i)
       THEN /\ Logged("critical", 0, 0)
            /\ sync_ret' = -1
            /\ UNCHANGED rebuild
       ELSE \E r \in {0, -1} :
                /\ rebuild' = FALSE
                /\ Logged("rebuild", 0, r)
                /\ sync_ret' = r
    /\ sync_pc' = "rollback"
    /\ UNCHANGED <<sync_flags, force_rebuild, sync_i, ctx, ctx_r, corrupted,
                   todo>>

\* lines 253-260: roll the sync back; give up or try again
Rollback ==
    /\ sync_pc = "rollback"
    /\ Logged("rollback", 0, 0)
    /\ IF sync_ret < 0
       THEN /\ ctx' = [Freed EXCEPT !.index_sync_ctx = "rolled back"]
            /\ sync_ret' = -1
            /\ sync_pc' = "returned"
            /\ UNCHANGED sync_i
       ELSE /\ ctx' = [ctx EXCEPT !.index_sync_ctx = "rolled back"]
            /\ sync_i' = sync_i + 1
            /\ sync_pc' = "attempt"
            /\ UNCHANGED sync_ret
    /\ UNCHANGED <<sync_flags, rebuild, force_rebuild, ctx_r, corrupted, todo>>

\* lines 266-286: sdbox_sync_finish is called with the context that
\* sdbox_sync_begin returned; committed is what mail_index_sync_commit
\* returns
SyncFinish ==
    /\ sync_pc = "returned"
    /\ ctx_r = "ctx"
    /\ \E success \in BOOLEAN, committed \in {0, -1} :
        /\ ctx_r' = "NULL"
        /\ IF success
           THEN IF committed < 0
                THEN /\ Logged("finish", 0, 0)
                     /\ ctx' = [ctx EXCEPT !.index_sync_ctx = "failed"]
                     /\ sync_ret' = -1
                     /\ sync_pc' = "deinit"
                     /\ UNCHANGED todo
                ELSE /\ sync_log' = sync_log \o <<Op("finish", 0, 0),
                                                  Op("commit", 0, 0)>>
                     /\ ctx' = [ctx EXCEPT !.index_sync_ctx = "committed"]
                     /\ sync_ret' = 0
                     /\ todo' = ctx.expunged_uids
                     /\ sync_pc' = "expunge"
           ELSE /\ sync_log' = sync_log \o <<Op("finish", 0, -1),
                                             Op("rollback", 0, 0)>>
                /\ ctx' = [ctx EXCEPT !.index_sync_ctx = "rolled back"]
                /\ sync_ret' = -1
                /\ sync_pc' = "deinit"
                /\ UNCHANGED todo
    /\ UNCHANGED <<sync_flags, rebuild, force_rebuild, sync_i, corrupted>>

\* lines 135-154 and 163-165: dbox_sync_file_expunge for the next uid;
\* r is what the unlink returns: 1 unlinked, 0 already gone, -1 error
ExpungeFile ==
    /\ sync_pc = "expunge"
    /\ todo # <<>>
    /\ \E r \in {1, 0, -1} :
        sync_log' = sync_log \o <<Op("unlink", Head(todo), r)>>
                        \o (IF notifies(r)
                            THEN <<Op("notify", Head(todo), 0)>>
                            ELSE <<>>)
    /\ todo' = Tail(todo)
    /\ UNCHANGED <<sync_pc, sync_flags, rebuild, force_rebuild, sync_i,
                   sync_ret, ctx, ctx_r, corrupted>>

\* lines 166-167: the end of dbox_sync_expunge_files
ExpungeDone ==
    /\ sync_pc = "expunge"
    /\ todo = <<>>
    /\ Logged("notify", 0, 0)
    /\ sync_pc' = "deinit"
    /\ UNCHANGED <<sync_flags, rebuild, force_rebuild, sync_i, sync_ret, ctx,
                   ctx_r, corrupted, todo>>

\* lines 288-294: the list index, then the context is freed
FinishReturn ==
    /\ sync_pc = "deinit"
    /\ \E rebuild_list_index \in BOOLEAN, rebuilt \in {0, -1} :
        sync_ret' = IF rebuild_list_index THEN rebuilt ELSE sync_ret
    /\ ctx' = Freed
    /\ sync_pc' = "finished"
    /\ UNCHANGED <<sync_flags, rebuild, force_rebuild, sync_i, ctx_r,
                   corrupted, todo, sync_log>>

\* what sdbox-sync.c leaves alone
sdbox_frame == <<vars, setter_vars, scanner_vars>>

NextSdbox ==
    \/ SyncBeginCall /\ UNCHANGED sdbox_frame
    \/ IndexSyncBegin /\ UNCHANGED sdbox_frame
    \/ SyncIndex /\ UNCHANGED sdbox_frame
    \/ Resync /\ UNCHANGED sdbox_frame
    \/ Rollback /\ UNCHANGED sdbox_frame
    \/ SyncFinish /\ UNCHANGED sdbox_frame
    \/ ExpungeFile /\ UNCHANGED sdbox_frame
    \/ ExpungeDone /\ UNCHANGED sdbox_frame
    \/ FinishReturn /\ UNCHANGED sdbox_frame

SpecSdbox == InitSdbox /\ [][NextSdbox]_sdbox_vars

\* every step of sdbox_sync_begin that can be taken is taken in the end:
\* the functions it calls return
SpecSdboxFair == SpecSdbox /\ WF_sdbox_vars(NextSdbox)

(***************************************************************************)
(* Properties.                                                             *)
(***************************************************************************)
IsPrefix(p, q) == Len(p) <= Len(q) /\ SubSeq(q, 1, Len(p)) = p

\* C1: a parse without a selector returns success only for input whose
\* braces are balanced: when settings_read_i returns TRUE, every section
\* that was opened has been closed.
C1_SuccessMeansBalanced ==
    (pc = "done" /\ section_arg.null /\ ret) => nest = <<>>

\* C2: in a parse with a selector, whatever the callbacks return, a
\* callback is invoked only for a line inside the section the selector
\* addresses (its open line, its body, its closing brace), and the parse
\* stops at the closing brace of that section.
C2_OnlyTargetDispatched ==
    ~section_arg.null =>
        /\ \A i \in 1..Len(trace) : IsPrefix(section_arg.comps, trace[i].nest)
        /\ (last.kind = "close" /\ last.nest = section_arg.comps) => pc = "done"

\* what C3 states apart from the suppression of callbacks: skip and the
\* depth counter are never negative, a } at depth 0 fails with
\* "Unexpected '}'" and no callback, and while skipping the depth counter
\* follows every section open and close
C3_Counting ==
    /\ skip >= 0
    /\ sections >= 0
    /\ (last.kind = "close" /\ last.sections = 0) =>
           /\ ~last.called
           /\ pc = "done" /\ ~ret
           /\ error_r.msg.text = "Unexpected '}'"
    /\ (last.skip > 0 /\ last.kind = "open") => sections = last.sections + 1
    /\ (last.skip > 0 /\ last.kind = "close" /\ last.sections > 0) =>
           sections = last.sections - 1

\* C3 as stated: skip >= 0 and sections >= 0 always, a } at depth 0 fails
\* without a callback, and for a logical line read while skip > 0 no
\* callback is invoked while the depth counter still counts.
C3_NoCallbackForLineReadWhileSkipping ==
    /\ C3_Counting
    /\ last.skip > 0 => ~last.called

\* C3 amended: as C3, but skip is taken when the line is dispatched: no
\* callback is invoked for a line dispatched while skip > 0, and the only
\* line read while skip > 0 for which a callback is invoked is the section
\* open that completes the selector, which clears skip before it is
\* dispatched.
C3_NoCallbackWhileSkipping ==
    /\ C3_Counting
    /\ last.dskip > 0 => ~last.called
    /\ (last.skip > 0 /\ last.called) =>
           /\ last.kind = "open"
           /\ ~section_arg.null
           /\ next_section = NULL
           /\ root_section = last.sections + 1

\* a key = value line was read inside a section that is being skipped
C3_Witness ==
    /\ last.kind = "assign"
    /\ last.skip > 0
    /\ last.sections > 0
    /\ ~last.called

\* C4: whenever settings_read_i returns, after an error raised at any
\* include nesting depth or after a targeted parse stopped early, every
\* input stream that was opened has been released: no frame of the input
\* stack is left open.
C4_AllStreamsReleased ==
    pc = "done" => (open_streams = 0 /\ input = <<>>)

\* C5: the input stack never holds two frames with the same canonical
\* path, also when the file is reached through different path strings.
C5_NoTwoFramesOfOneFile ==
    \A i, j \in 1..Len(input) :
        i # j => Canonical(input[i].path) # Canonical(input[j].path)

\* the files that file f includes with an !include directive it contains
IncludesOf(f) ==
    {g \in FileNames :
        \E i \in 1..Len(files[f].lines) :
            LET l == files[f].lines[i]
                pathv == Expand(fix_relative_path(l.pattern,
                                                  Frame(<<"d", f>>)))
            IN  /\ l.kind = "include"
                /\ l.key = "!include"
                /\ \E k \in 1..Len(pathv) :
                       FileOf(pathv[k]) = g /\ Exists(fstatus, pathv[k])}

\* the errors of glob() that do not depend on the files
GlobFailures == {"glob() failed: Not enough memory", "glob() failed: Read error",
                 "glob() failed: Unknown error"}

\* C6: when the root file A and a file B include each other with
\* !include, no callback is invoked for a line of B, and the parse fails
\* with a "Recursive include file" error (unless glob() itself fails).
C6_MutualIncludeFailsOnce ==
    \A B \in FileNames \ {FileOf(RootPath)} :
        (B \in IncludesOf(FileOf(RootPath)) /\ FileOf(RootPath) \in IncludesOf(B))
        => /\ \A i \in 1..Len(trace) : FileOf(trace[i].path) # B
           /\ pc = "done" =>
                  /\ ~ret
                  /\ error_r.msg.text
                         \in {"Recursive include file"} \cup GlobFailures

\* C7: !include_try suppresses only a pattern that matches nothing and a
\* matched file that does not exist: when the parse goes on after an
\* !include_try, every file the pattern matched was opened or was missing
\* (ENOENT); a matched file that exists and cannot be opened aborts.
C7_TryAbortsOnOtherFailures ==
    (last.kind = "!include_try" /\ pc = "read") =>
        \A i \in 1..Len(GlobMatches(fstatus, last.pattern)) :
            OpenErrno(fstatus, GlobMatches(fstatus, last.pattern)[i])
                \in {"", "ENOENT"}

\* C8: an error message of settings_read_i names the path and the line
\* number of the frame the offending logical line was read from; for a
\* failed include that is the including file and the line of the directive.
C8_ErrorNamesOffendingLine ==
    (pc = "done" /\ ~ret /\ last.kind # "none") =>
        /\ error_r.located
        /\ error_r.path = last.path
        /\ error_r.line = last.line

\* C9: with a null section callback every section is skipped, for every
\* selector: the key-value callback is never invoked for a line inside a
\* section and the assertion sect_callback != NULL at a } never fails.
C9_NullCallbackSkipsEverySection ==
    ~sect_callback =>
        /\ pc # "panic"
        /\ \A i \in 1..Len(trace) :
               trace[i].cb = "kv" => trace[i].nest = <<>>

\* C10: in a targeted parse of a file in which no section is addressed by
\* the selector, no callback is invoked, and the parse of a file that was
\* opened fails only on a syntax error of the file.
C10_NoMatchNoCallbacks ==
    (~section_arg.null /\ section_arg.comps \notin opened) =>
        /\ trace = <<>>
        /\ (pc = "done" /\ ~ret /\ error_r.located) =>
               error_r.msg.text \in {"Expecting '='", "Unexpected '}'"}

\* the logical line dispatched last, as it stands in its file
LastLine == files[FileOf(last.path)].lines[last.line]

\* the first n components of the selector
Selected(n) == SubSeq(section_arg.comps, 1, n)

\* C11: the selector advances only at the appropriate depth: whenever a
\* section open matches a component of the selector, the sections open
\* after it are exactly the components matched so far, so the first
\* component is matched only by a top-level section and each further one
\* only directly inside the still-open section that matched the one before.
C11_SelectorAdvancesAtItsDepth ==
    [][(pc = "read" /\ section' # section) =>
           nest' = Selected(Len(section_arg.comps) - Len(section'))]_vars

\* C12: in a targeted parse the section callback is invoked for the open
\* and for the close of every section on the selector path, ancestors and
\* target alike, and for no section next to the path.
C12_CallbackForWholeSelectorPath ==
    (~section_arg.null /\ sect_callback) =>
        /\ \A p \in opened :
               IsPrefix(p, section_arg.comps) =>
                   \E i \in 1..Len(trace) :
                       trace[i].cb = "open" /\ trace[i].nest = p
        /\ \A i \in 1..Len(trace) :
               trace[i].cb = "open" =>
                   \/ IsPrefix(trace[i].nest, section_arg.comps)
                   \/ IsPrefix(section_arg.comps, trace[i].nest)
        /\ (pc = "done" /\ ret /\ section_arg.comps \in opened) =>
               \A n \in 1..Len(section_arg.comps) :
                   \E i \in 1..Len(trace) :
                       trace[i].cb = "close" /\ trace[i].nest = Selected(n)

\* C13: a section written TYPE { is selected by its type token: when the
\* first component of the selector is the type of a top-level section that
\* has no name, the open of that section matches the component.
C13_TypeTokenSelects ==
    (/\ last.kind = "open"
     /\ ~section_arg.null
     /\ last.nest = <<>>
     /\ LastLine.name = ""
     /\ LastLine.key = Head(section_arg.comps))
    => Len(section) < Len(section_arg.comps)

\* C15: whenever the section callback reports an error, on a section open
\* or on a close notification, and a section boundary was seen before the
\* line, the message is wrapped with the path and the line of the most
\* recent boundary; when there was none the message is not wrapped.
C15_SectionErrorsNameLastBoundary ==
    (errormsg.text = "callback error" /\ last.kind \in {"open", "close"}) =>
        IF last.changed_line # 0
        THEN /\ errormsg.changed_path = last.changed_path
             /\ errormsg.changed_line = last.changed_line
        ELSE errormsg.changed_line = 0

\* C16: callbacks come in file order across an include: when a directive's
\* pattern expands to b then c, every callback for a line of b comes before
\* every callback for a line of c.  (b and c are only ever on the stack
\* together when one directive pushed both.)
C16_IncludedFilesInExpansionOrder ==
    \A i, j \in 1..Len(trace) :
        (FileOf(trace[i].path) = "c" /\ FileOf(trace[j].path) = "b") => j < i

\* C17: once a callback has reported an error, no callback is invoked
\* again and settings_read_i returns failure with a message that contains
\* the error: the parse is over, the result is FALSE, *error_r holds the
\* error, and the last callback of the trace is the one for that line.
C17_FirstCallbackErrorEndsParse ==
    errormsg.text = "callback error" =>
        /\ pc = "done"
        /\ ~ret
        /\ error_r.located
        /\ error_r.msg = errormsg
        /\ last.called
        /\ trace[Len(trace)].path = last.path
        /\ trace[Len(trace)].line = last.line

\* the section callback reported an error at a close notification
C17_Witness ==
    /\ errormsg.text = "callback error"
    /\ last.kind = "close"
    /\ last.called
    /\ Len(trace) >= 2

\* the definitions of the table that have the key of the last call, and the
\* fields the last call changed
Matching == {i \in 1..Len(defs) : defs[i].name = setting.key}
FirstMatch == CHOOSE i \in Matching : \A j \in Matching : i <= j
Changed == {o \in Offsets : base[o] # setting.before[o]}

\* C18: parse_setting_from_defs changes at most one field of the struct:
\* for a key no definition has it returns "Unknown setting: <key>" and
\* changes nothing; for a key that is defined it writes at most the field
\* of the first definition with that name; and when it returns an error
\* (the value cannot be coerced) every field is as it was.
C18_AtMostTheFirstMatchingField ==
    setting.called =>
        /\ Cardinality(Changed) <= 1
        /\ Matching = {} =>
               /\ setting.ret = Msg("Unknown setting", <<setting.key>>)
               /\ Changed = {}
        /\ Matching # {} => Changed \subseteq {defs[FirstMatch].offset}
        /\ setting.ret # NoMsg => Changed = {}

\* a key that two definitions have, for different fields, was set
C18_Witness ==
    /\ setting.called
    /\ Cardinality(Matching) = 2
    /\ defs[1].offset # defs[2].offset
    /\ setting.ret = NoMsg
    /\ Changed = {defs[1].offset}

\* C14: the statements that follow a { on the same physical line are
\* parsed: a line  s { k = v }  is dispatched as the open of the section,
\* then the key-value pair k = v, then the close of the section.
C14_StatementsAfterBraceAreParsed ==
    \A i \in 1..Len(dispatched) :
        (/\ dispatched[i].kind = "open"
         /\ skip_white(dispatched[i].ignored)
                = <<"k", " ", "=", " ", "v", " ", "}">>)
        => /\ Len(dispatched) >= i + 2
           /\ dispatched[i + 1].kind = "assign"
           /\ dispatched[i + 1].key = <<"k">>
           /\ dispatched[i + 1].arg = <<"v">>
           /\ dispatched[i + 2].kind = "close"
           /\ \A j \in {i + 1, i + 2} :
                  /\ dispatched[j].path = dispatched[i].path
                  /\ dispatched[j].line = dispatched[i].line

\* C19: the line buffer is empty whenever the parser starts a new logical
\* line, also at the first line after an include directive and after the
\* end of an included file.
C19_BufferEmptyAtLogicalLineStart ==
    (pc = "read" /\ run = <<>>) => full_line = <<>>

\* the fragment of a physical line: the line without leading white space,
\* comment, trailing white space, and without a trailing backslash and the
\* white space before it
Fragment(phys) ==
    LET line == skip_white(phys)
        stripped == SubSeq(line, 1, comment_at(line, 1) - 1)
        len == trim_white(stripped, Len(stripped), FALSE)
    IN  IF len > 0 /\ stripped[len] = "\\"
        THEN SubSeq(stripped, 1, trim_white(stripped, len - 1, FALSE))
        ELSE SubSeq(stripped, 1, len)

\* the physical line ends with a backslash that is not part of a comment
EndsWithBackslash(phys) ==
    LET line == skip_white(phys)
        stripped == SubSeq(line, 1, comment_at(line, 1) - 1)
        len == trim_white(stripped, Len(stripped), FALSE)
    IN  len > 0 /\ stripped[len] = "\\"

\* the fragments of the lines, each followed by one space
RECURSIVE Fragments(_)
Fragments(lines) ==
    IF lines = <<>> THEN <<>>
    ELSE Fragment(Head(lines)) \o <<" ">> \o Fragments(Tail(lines))

\* C20: for physical lines l1..ln of which all but the last end with a
\* backslash, the logical line is the fragments of the lines joined by
\* exactly one space each: while such lines are read the parser goes on
\* and the line buffer holds their fragments, each followed by one space,
\* and the logical line that ln completes is the buffer and ln's fragment.
C20_FragmentsJoinedByOneSpace ==
    /\ (/\ pc # "done"
        /\ run # <<>>
        /\ \A i \in 1..Len(run) : EndsWithBackslash(run[i]))
       => (pc = "read" /\ full_line = Fragments(run))
    /\ \A i \in 1..Len(dispatched) :
           LET lines == dispatched[i].run
               n == Len(lines)
           IN  (\A j \in 1..(n - 1) : EndsWithBackslash(lines[j]))
               => dispatched[i].text = Fragments(SubSeq(lines, 1, n - 1))
                                           \o Fragment(lines[n])

\* C21: when a physical line ends with a backslash the fragment appended to
\* the line buffer has a length between 0 and the length of the line, and
\* the parse continues: after such a line the parser is still reading and
\* the buffer ends with the first n characters of the line (leading white
\* space apart), 0 <= n <= length, and one space; a line that is only a
\* backslash contributes the empty fragment.
C21_TrimStaysInsideLine ==
    (run # <<>> /\ EndsWithBackslash(run[Len(run)])) =>
        LET line == skip_white(run[Len(run)])
            end == Len(full_line)
        IN  /\ pc = "read"
            /\ \E n \in 0..Len(line) :
                   /\ end >= n + 1
                   /\ full_line[end] = " "
                   /\ SubSeq(full_line, end - n, end - 1) = SubSeq(line, 1, n)
                   /\ n = Len(Fragment(run[Len(run)]))

\* C22: in a parse without a selector and with a section callback, the
\* close notification is invoked at a } if and only if the open callback
\* was invoked for the matching { and returned true; equivalently
\* skip <= sections, and sections - skip is the number of accepted sections
\* that are still open.
C22_CloseNotifiedIffOpenAccepted ==
    (section_arg.null /\ sect_callback) =>
        /\ skip <= sections
        /\ sections - skip
               = Cardinality({i \in 1..Len(accepts) : accepts[i]})
        /\ (last.kind = "close" /\ last.sections > 0) =>
               (last.called <=> last.accepted)

\* a } was read for a section that was opened while skipping inside a
\* rejected section, below an accepted one
C22_Witness ==
    /\ section_arg.null
    /\ sect_callback
    /\ last.kind = "close"
    /\ last.sections = 3
    /\ ~last.called
    /\ accepts = <<TRUE, FALSE>>
    /\ skip = 1

InSyncBegin == sync_pc \in {"attempt", "index", "resync", "rollback"}

\* what C24 says of every state: at most SDBOX_REBUILD_COUNT rebuilds and
\* SDBOX_REBUILD_COUNT + 1 sync-begin attempts; and when the index was
\* found broken after the last rebuild allowed, -1 is returned with the
\* sync rolled back and the context freed
C24_Bounded ==
    /\ Count("rebuild") <= SDBOX_REBUILD_COUNT
    /\ Count("sync_begin") <= SDBOX_REBUILD_COUNT + 1
    /\ (sync_pc = "resync" /\ Count("rebuild") = SDBOX_REBUILD_COUNT) =>
           (ENABLED Resync /\ keeps_breaking(sync_i))
    /\ (Count("critical") > 0 /\ ~InSyncBegin) =>
           /\ sync_pc = "returned"
           /\ sync_ret = -1
           /\ ctx.index_sync_ctx = "rolled back"
           /\ ~ctx.allocated
           /\ sync_log[Len(sync_log)].op = "rollback"

\* C24: sdbox_sync_begin terminates for every sequence of outcomes of the
\* index operations: it performs at most SDBOX_REBUILD_COUNT rebuilds and
\* SDBOX_REBUILD_COUNT + 1 sync-begin attempts, it returns -1 with the sync
\* rolled back and the context freed when the index is found broken after
\* the third rebuild, and once called it returns.
C24_SyncBeginTerminates ==
    /\ []C24_Bounded
    /\ (InSyncBegin ~> ~InSyncBegin)

\* the index kept breaking: three rebuilds, a fourth attempt, then -1
C24_Witness ==
    /\ sync_pc = "returned"
    /\ Count("rebuild") = SDBOX_REBUILD_COUNT
    /\ Count("sync_begin") = SDBOX_REBUILD_COUNT + 1
    /\ Count("critical") = 1
    /\ sync_ret = -1

\* the positions of the sync log where op was done for a message
Done(op) == {k \in 1..Len(sync_log) : sync_log[k].op = op /\ sync_log[k].uid # 0}

\* C25: sdbox_sync_finish unlinks message files only after the index sync
\* was committed: with success false or a failed commit no file is unlinked
\* and no expunge is notified; after a commit the file of each expunged uid
\* is unlinked, in the order of ctx->expunged_uids; and an expunge is
\* notified for a uid only right after this process's unlink of its file
\* succeeded.
C25_UnlinkOnlyAfterCommit ==
    /\ \A k \in Done("unlink") \cup Done("notify") :
           \E j \in 1..(k - 1) : sync_log[j].op = "commit"
    /\ ctx.index_sync_ctx \in {"failed", "rolled back"} =>
           Done("unlink") \cup Done("notify") = {}
    /\ (sync_pc = "deinit" /\ ctx.index_sync_ctx = "committed") =>
           /\ Cardinality(Done("unlink")) = Len(ctx.expunged_uids)
           /\ \A n \in 1..Len(ctx.expunged_uids) :
                  \E k \in Done("unlink") :
                      /\ sync_log[k].uid = ctx.expunged_uids[n]
                      /\ Cardinality({j \in Done("unlink") : j <= k}) = n
    /\ \A k \in Done("notify") :
           /\ k > 1
           /\ sync_log[k - 1].op = "unlink"
           /\ sync_log[k - 1].uid = sync_log[k].uid
           /\ sync_log[k - 1].ret > 0

\* after a commit one file was unlinked and its expunge notified, and
\* another was already gone and nothing was notified for it
C25_Witness ==
    /\ sync_pc = "finished"
    /\ Count("commit") = 1
    /\ \E k \in Done("unlink") : sync_log[k].ret > 0 /\ k + 1 \in Done("notify")
    /\ \E k \in Done("unlink") : sync_log[k].ret <= 0 /\ k + 1 \notin Done("notify")

====
